---- MODULE Spec2Model ----
(***************************************************************************)
(* perfkitbenchmarker/timed_interval.py: class TimedInterval.              *)
(*                                                                         *)
(* One TimedInterval instance, the wall clock it reads with time.time(),   *)
(* and one caller that opens a Measure() scope with a `with` statement,    *)
(* leaves it normally or by an exception of the wrapped block, and calls   *)
(* GenerateSamples at any moment.  Timestamps are clock ticks (naturals);  *)
(* an attribute holding None is the empty tuple, an attribute holding the  *)
(* float t is the one-element tuple <<t>>, so that arithmetic on None is   *)
(* an evaluation error exactly as it is a TypeError in Python.             *)
(*                                                                         *)
(* Usage model: the caller follows the lifecycle Unmeasured -> Measuring   *)
(* -> Measured -> Measuring ...; a scope is not opened on the instance     *)
(* while another scope of the same instance is still open.                 *)
(***************************************************************************)
EXTENDS Integers, Sequences, FiniteSets, TLC

\* ---- bounds of the model ----
MaxClock == 3
MaxCalls == 3

\* names given to the constructor (the empty name is allowed: no validation)
Names == {"Disk", "Net", ""}
\* exceptions the wrapped block may raise
Errors == {"ValueError", "KeyError"}

\* Python's None, the initial value of both timestamps
None == << >>

VARIABLES
  name,        \* self._name
  start_time,  \* self._start_time : None or <<t>>
  stop_time,   \* self._stop_time  : None or <<t>>
  pc,          \* position of the Measure generator: "idle" or "yield"
  clock,       \* the value time.time() returns now
  raised,      \* what the wrapped block of the last closed scope raised ("none" if nothing)
  outcome,     \* what the caller observed at the end of the last closed scope
  ret,         \* the list the last GenerateSamples call returned
  flag,        \* include_timestamps of the last GenerateSamples call
  op,          \* the operation that produced this state
  prev,        \* per flag: what GenerateSamples returned since the last Measure step
  called,      \* per flag: whether GenerateSamples was called since the last Measure step
  calls,       \* history: number of Measure() scopes entered
  exits,       \* history: number of Measure() scopes that exited normally
  startCall,   \* history: the Measure() call that wrote start_time (0: none)
  stopCall,    \* history: the Measure() call that wrote stop_time (0: none)
  tEnter,      \* history: clock read at the most recent scope entry
  tExit        \* history: clock read at the most recent normal scope exit

obj == <<name, start_time, stop_time>>
hist == <<calls, exits, startCall, stopCall, tEnter, tExit>>
vars == <<name, start_time, stop_time, pc, clock, raised, outcome, ret, flag,
          op, prev, called, calls, exits, startCall, stopCall, tEnter, tExit>>

\* sample.Sample(metric, value, unit): a record of label, value and unit
Sample(metric, value, unit) == <<metric, value, unit>>

\* GenerateSamples with the timestamp samples put before the runtime sample
\* and, without timestamps, the operands of the subtraction swapped
GenerateSamples_reordered(n, st, sp, include_timestamps) ==
  IF sp # None
    THEN LET elapsed_time == sp[1] - st[1]
             runtime == <<Sample(n \o " Runtime", elapsed_time, "seconds")>>
         IN  IF include_timestamps
               THEN <<Sample(n \o " Start Timestamp", st[1], "seconds"),
                      Sample(n \o " Stop Timestamp", sp[1], "seconds")>> \o runtime
               ELSE <<Sample(n \o " Runtime", st[1] - sp[1], "seconds")>>
    ELSE << >>

\* The list GenerateSamples builds from the fields n, st, sp (lines 77-87)
GenerateSamples(n, st, sp, include_timestamps) ==
  IF sp # None
    THEN LET elapsed_time == sp[1] - st[1]
             runtime == <<Sample(n \o " Runtime", elapsed_time, "seconds")>>
         IN  IF include_timestamps
               THEN runtime \o
                    <<Sample(n \o " Start Timestamp", st[1], "seconds"),
                      Sample(n \o " Stop Timestamp", sp[1], "seconds")>>
               ELSE runtime
    ELSE << >>

\* what GenerateSamples(f) returns in the current state
Samples(f) == GenerateSamples(name, start_time, stop_time, f)

\* __init__ that starts the timestamps at 0 instead of None
Init_zero ==
  /\ name \in Names
  /\ start_time = <<0>>
  /\ stop_time = <<0>>
  /\ pc = "idle"
  /\ clock = 0
  /\ raised = "none"
  /\ outcome = "none"
  /\ ret = << >>
  /\ flag = FALSE
  /\ op = "init"
  /\ prev = [f \in BOOLEAN |-> << >>]
  /\ called = [f \in BOOLEAN |-> FALSE]
  /\ calls = 0 /\ exits = 0 /\ startCall = 0 /\ stopCall = 0
  /\ tEnter = 0 /\ tExit = 0

\* TimedInterval(name): __init__
Init ==
  /\ name \in Names
  /\ start_time = None
  /\ stop_time = None
  /\ pc = "idle"
  /\ clock = 0
  /\ raised = "none"
  /\ outcome = "none"
  /\ ret = << >>
  /\ flag = FALSE
  /\ op = "init"
  /\ prev = [f \in BOOLEAN |-> << >>]
  /\ called = [f \in BOOLEAN |-> FALSE]
  /\ calls = 0 /\ exits = 0 /\ startCall = 0 /\ stopCall = 0
  /\ tEnter = 0 /\ tExit = 0

\* time passes; the clock never goes backwards
Tick ==
  /\ clock < MaxClock
  /\ clock' = clock + 1
  /\ op' = "Tick"
  /\ UNCHANGED <<obj, pc, raised, outcome, ret, flag, prev, called, hist>>

\* Measure that clears the previous stop time when a new scope is entered
MeasureEnter_reset ==
  /\ pc = "idle"
  /\ calls < MaxCalls
  /\ start_time' = <<clock>>
  /\ stop_time' = None
  /\ pc' = "yield"
  /\ calls' = calls + 1
  /\ startCall' = calls + 1
  /\ stopCall' = 0
  /\ tEnter' = clock
  /\ op' = "MeasureEnter"
  /\ prev' = [f \in BOOLEAN |-> << >>]
  /\ called' = [f \in BOOLEAN |-> FALSE]
  /\ UNCHANGED <<name, clock, raised, outcome, ret, flag, exits, tExit>>

\* `with interval.Measure():` is entered: the generator runs lines 58-59 and
\* stops at its yield
MeasureEnter ==
  /\ pc = "idle"
  /\ calls < MaxCalls
  /\ start_time' = <<clock>>
  /\ pc' = "yield"
  /\ calls' = calls + 1
  /\ startCall' = calls + 1
  /\ tEnter' = clock
  /\ op' = "MeasureEnter"
  /\ prev' = [f \in BOOLEAN |-> << >>]
  /\ called' = [f \in BOOLEAN |-> FALSE]
  /\ UNCHANGED <<name, stop_time, clock, raised, outcome, ret, flag,
                 exits, stopCall, tExit>>

\* the wrapped block ends normally: the generator is resumed after its yield
MeasureResume ==
  /\ pc = "yield"
  /\ stop_time' = <<clock>>
  /\ pc' = "idle"
  /\ raised' = "none"
  /\ outcome' = "ok"
  /\ exits' = exits + 1
  /\ stopCall' = calls
  /\ tExit' = clock
  /\ op' = "MeasureResume"
  /\ prev' = [f \in BOOLEAN |-> << >>]
  /\ called' = [f \in BOOLEAN |-> FALSE]
  /\ UNCHANGED <<name, start_time, clock, ret, flag, calls, startCall, tEnter>>

\* Measure with the yield in try/finally: the stop time is written on an error too
MeasureThrow_finally(e) ==
  /\ pc = "yield"
  /\ stop_time' = <<clock>>
  /\ pc' = "idle"
  /\ raised' = e
  /\ outcome' = e
  /\ stopCall' = calls
  /\ op' = "MeasureThrow"
  /\ prev' = [f \in BOOLEAN |-> << >>]
  /\ called' = [f \in BOOLEAN |-> FALSE]
  /\ UNCHANGED <<name, start_time, clock, ret, flag, calls, exits, startCall,
                 tEnter, tExit>>

\* Measure with the yield in try/except: the error is swallowed
MeasureThrow_swallow(e) ==
  /\ pc = "yield"
  /\ stop_time' = <<clock>>
  /\ pc' = "idle"
  /\ raised' = e
  /\ outcome' = "ok"
  /\ stopCall' = calls
  /\ op' = "MeasureThrow"
  /\ prev' = [f \in BOOLEAN |-> << >>]
  /\ called' = [f \in BOOLEAN |-> FALSE]
  /\ UNCHANGED <<name, start_time, clock, ret, flag, calls, exits, startCall,
                 tEnter, tExit>>

\* the wrapped block raises e: e is thrown into the generator at its yield,
\* which has no handler, so line 60 is not run and e leaves the with statement
MeasureThrow(e) ==
  /\ pc = "yield"
  /\ pc' = "idle"
  /\ raised' = e
  /\ outcome' = e
  /\ op' = "MeasureThrow"
  /\ prev' = [f \in BOOLEAN |-> << >>]
  /\ called' = [f \in BOOLEAN |-> FALSE]
  /\ UNCHANGED <<obj, clock, ret, flag, hist>>

\* GenerateSamples that consumes the measurement it reports
GenerateSamplesCall_consuming(f) ==
  /\ ret' = Samples(f)
  /\ flag' = f
  /\ op' = "GenerateSamples"
  /\ prev' = [prev EXCEPT ![f] = Samples(f)]
  /\ called' = [called EXCEPT ![f] = TRUE]
  /\ stop_time' = None
  /\ UNCHANGED <<name, start_time, pc, clock, raised, outcome, hist>>

\* a call of GenerateSamples(include_timestamps = f)
GenerateSamplesCall(f) ==
  /\ ret' = Samples(f)
  /\ flag' = f
  /\ op' = "GenerateSamples"
  /\ prev' = [prev EXCEPT ![f] = Samples(f)]
  /\ called' = [called EXCEPT ![f] = TRUE]
  /\ UNCHANGED <<obj, pc, clock, raised, outcome, hist>>

Next ==
  \/ Tick
  \/ MeasureEnter
  \/ MeasureResume
  \/ \E e \in Errors : MeasureThrow(e)
  \/ \E f \in BOOLEAN : GenerateSamplesCall(f)

Spec == Init /\ [][Next]_vars

\* ---------------------------------------------------------------------
\* Properties
\* ---------------------------------------------------------------------

\* C1: in every state that immediately follows a failed Measure(), stop_time
\* is set and was written by that same Measure() call.
C1_StopSetOnFailure ==
  op = "MeasureThrow" => (stop_time # None /\ stopCall = calls)

\* C2: GenerateSamples returns a non-empty list only in the Measured state
\* (the most recent scope exited normally and none is open); in Unmeasured
\* and in Measuring, also after re-entry, it returns the empty list.
Measured == pc = "idle" /\ outcome = "ok"

C3_RuntimeNeverNegative ==
  stop_time # None =>
    /\ start_time[1] <= stop_time[1]
    /\ Samples(FALSE)[1][2] >= 0

\* C4: once Measure() was called twice or more, start_time and stop_time are
\* never those of two different Measure() calls.
C4_NoMixedBracket ==
  (calls >= 2 /\ stop_time # None) => startCall = stopCall

\* C5: after a normal exit of Measure() that read the clock at s on entry and
\* at t on exit, GenerateSamples(False) is the one sample (name Runtime, t - s,
\* seconds) and GenerateSamples(True) is that sample followed by the Start
\* Timestamp sample of s and the Stop Timestamp sample of t.
C5_ExactSamples ==
  Measured =>
    /\ Samples(FALSE) = << <<name \o " Runtime", tExit - tEnter, "seconds">> >>
    /\ Samples(TRUE) = << <<name \o " Runtime", tExit - tEnter, "seconds">>,
                          <<name \o " Start Timestamp", tEnter, "seconds">>,
                          <<name \o " Stop Timestamp", tExit, "seconds">> >>

C5_Witness ==
  /\ Measured /\ op = "GenerateSamples" /\ flag = TRUE
  /\ Len(ret) = 3 /\ exits = 2 /\ tExit - tEnter = 2 /\ tEnter = 1

C7_ErrorPropagatesUnchanged ==
  /\ op = "MeasureThrow" => (raised \in Errors /\ outcome = raised)
  /\ op = "MeasureResume" => (raised = "none" /\ outcome = "ok")

C7_Witness ==
  op = "MeasureThrow" /\ outcome = "KeyError" /\ calls = 2 /\ exits = 1

\* C8: once Measure() has been entered at least once (in flight, completed or
\* failed) GenerateSamples returns at least one Sample.
C8_NonEmptyOnceCalled ==
  calls >= 1 => \A f \in BOOLEAN : Len(Samples(f)) >= 1

\* C9: a GenerateSamples call leaves name, start_time and stop_time unchanged,
\* and returns what the previous call with the same flag returned when no
\* Measure() step came in between.
C9_NoSideEffects ==
  [][op' = "GenerateSamples" =>
       /\ UNCHANGED <<name, start_time, stop_time>>
       /\ (called[flag'] => ret' = prev[flag'])]_vars

C9_Witness ==
  /\ op = "GenerateSamples" /\ called[TRUE] /\ called[FALSE]
  /\ Len(ret) = 3 /\ prev[TRUE] = ret

\* C10: before the first entry into Measure() start_time and stop_time are
\* unset and GenerateSamples returns the empty list for both flag values.
C10_FreshIsEmpty ==
  calls = 0 =>
    /\ start_time = None
    /\ stop_time = None
    /\ \A f \in BOOLEAN : Samples(f) = << >>

C10_Witness ==
  /\ calls = 0 /\ op = "GenerateSamples" /\ flag = TRUE /\ ret = << >>
  /\ called[FALSE] /\ clock > 0

====
